---- MODULE Spec2Model ----
(***************************************************************************)
(* The agenta backend client (agenta-cli/agenta/client/client.py): eight   *)
(* request functions, each of which builds one HTTP request, blocks on the *)
(* backend's reply, classifies the status code and returns or raises.      *)
(*                                                                         *)
(* A JSON object is a set of <<key, value>> pairs of strings, a JSON array *)
(* a sequence of objects.  A call is followed through its positions: the   *)
(* arguments are bound ("calling"), the request is issued ("waiting"), the *)
(* reply arrives ("in_with" inside send_docker_tar's with block, otherwise *)
(* "received"), the status is classified ("done"), control is back with    *)
(* the caller ("idle").                                                    *)
(***************************************************************************)
EXTENDS Integers, Sequences, FiniteSets, TLC

\* Longest JSON array the backend returns.
MaxVariants == 2
\* Earlier invocations a run keeps count of.
MaxCalls == 2

VARIABLES
    BACKEND_URL_SUFFIX,   \* module constant read from the environment at import
    jsonErrorIsRequestException, \* installed requests: is JSONDecodeError a RequestException
    backend,              \* the backend of the run: "any", or the "observed" one
    pc,                   \* position of the caller's single thread
    op,                   \* the function being executed
    args,                 \* its arguments
    request,              \* the request handed to requests.get/post/put/delete
    sent,                 \* requests issued by the current invocation
    reply,                \* the response, or the transport exception
    tar_file,             \* the handle on the tar archive: none, open, closed
    outcome,              \* what the function returned or raised
    calls,                \* invocations completed earlier in the run
    probe                 \* the run's first invocation, as an observer recorded it

vars == <<BACKEND_URL_SUFFIX, jsonErrorIsRequestException, backend, pc, op, args,
          request, sent, reply, tar_file, outcome, calls, probe>>

----------------------------------------------------------------------------
\* JSON bodies

TextBody == [kind |-> "text", obj |-> {}, arr |-> <<>>]
Obj(o) == [kind |-> "object", obj |-> o, arr |-> <<>>]
Arr(s) == [kind |-> "array", obj |-> {}, arr |-> s]

HasKey(o, k) == \E p \in o : p[1] = k
Get(o, k, default) == IF HasKey(o, k) THEN (CHOOSE p \in o : p[1] = k)[2] ELSE default

DetailObject == {<<"detail", "duplicate name">>}
ErrorObject == {<<"error", "boom">>}
AppObject == {<<"app_id", "a1">>}
UriObject == {<<"uri", "http://localhost/a1/v1">>}
ImageObject == {<<"docker_id", "d1">>, <<"tags", "t1">>}
VariantOne == {<<"variant_id", "v1">>, <<"variant_name", "one">>}
VariantTwo == {<<"variant_id", "v2">>, <<"variant_name", "two">>}
NamelessVariant == {<<"variant_id", "v3">>}

ArrayItems == {VariantOne, VariantTwo, NamelessVariant}
Arrays == UNION {[1..n -> ArrayItems] : n \in 0..MaxVariants}
Objects == {DetailObject, ErrorObject, AppObject, UriObject, ImageObject}
Bodies == {TextBody} \cup {Obj(o) : o \in Objects} \cup {Arr(s) : s \in Arrays}

Statuses == {200, 201, 204, 304, 404, 500, 503}
TransportErrors == {"ConnectionError", "Timeout"}

Response(status, body) == [transport |-> "none", status |-> status, body |-> body]
TransportFailure(e) == [transport |-> e, status |-> 0, body |-> TextBody]
NoReply == [transport |-> "unsent", status |-> 0, body |-> TextBody]

Replies ==
    {Response(s, b) : s \in Statuses, b \in Bodies}
        \cup {TransportFailure(e) : e \in TransportErrors}

\* The replies of the runs in which an observer records the first invocation.
ObservedReplies ==
    {Response(s, b) : s \in {200, 404, 500},
                      b \in {TextBody, Obj(AppObject), Obj(DetailObject), Obj(ImageObject),
                             Arr(<<VariantOne>>)}}
        \cup {TransportFailure("ConnectionError")}

Suffixes == {"api", "v2"}

----------------------------------------------------------------------------
\* Arguments

NoEnvVars == [none |-> TRUE, map |-> {}]
EnvVars(m) == [none |-> FALSE, map |-> m]
EnvMaps == SUBSET {<<"FOO", "bar">>, <<"BAZ", "qux">>}
EnvVarsArgs == {NoEnvVars} \cup {EnvVars(m) : m \in EnvMaps}

DefaultArgs ==
    [app_name |-> "demo", app_id |-> "a1", variant_id |-> "v1", variant_name |-> "one",
     host |-> "http://localhost", env_vars |-> NoEnvVars, image |-> ImageObject,
     tar_exists |-> TRUE]

Operations ==
    {"get_app_by_name", "create_new_app", "add_variant_to_server", "start_variant",
     "list_variants", "remove_variant", "update_variant_image", "send_docker_tar"}

\* Python truthiness of Optional[Dict]: None and the empty dict are false.
Truthy(env_vars) == ~env_vars.none /\ env_vars.map # {}

----------------------------------------------------------------------------
\* Requests

NoNested == [keys |-> {}, env_vars |-> {}]
NoJson == [keys |-> {}, fields |-> {}, env_vars |-> NoNested, image |-> {}]
Json(fields) ==
    [keys |-> {p[1] : p \in fields}, fields |-> fields, env_vars |-> NoNested, image |-> {}]

Req(method, url, json, files, timeout) ==
    [method |-> method, url |-> url, json |-> json, files |-> files, timeout |-> timeout]
NoRequest == Req("none", <<>>, NoJson, {}, 0)

get_app_by_name_request(a) ==
    Req("GET", <<a.host, "/", BACKEND_URL_SUFFIX, "/apps?app_name=", a.app_name, "/">>,
        NoJson, {}, 600)

create_new_app_request(a) ==
    Req("POST", <<a.host, "/", BACKEND_URL_SUFFIX, "/apps/">>,
        Json({<<"app_name", a.app_name>>}), {}, 600)

add_variant_to_server_request(a) ==
    Req("POST",
        <<a.host, "/", BACKEND_URL_SUFFIX, "/apps/", a.app_id, "/variant/from-image/">>,
        Json({<<"variant_name", a.variant_name>>,
              <<"docker_id", Get(a.image, "docker_id", "")>>,
              <<"tags", Get(a.image, "tags", "")>>,
              <<"base_name", "null">>,
              <<"config_name", "null">>}),
        {}, 600)

\* A variant that tests "env_vars is not None" in place of the truth value.
start_variant_payload_unless_none(env_vars) ==
    IF ~env_vars.none
    THEN [keys |-> {"action", "env_vars"}, fields |-> {<<"action", "START">>},
          env_vars |-> [keys |-> {"env_vars"}, env_vars |-> env_vars.map], image |-> {}]
    ELSE Json({<<"action", "START">>})

start_variant_payload(env_vars) ==
    IF Truthy(env_vars)
    THEN [keys |-> {"action", "env_vars"}, fields |-> {<<"action", "START">>},
          env_vars |-> [keys |-> {"env_vars"}, env_vars |-> env_vars.map], image |-> {}]
    ELSE Json({<<"action", "START">>})

start_variant_request(a) ==
    Req("PUT", <<a.host, "/variants/", a.variant_id, "/">>,
        start_variant_payload(a.env_vars), {}, 600)

list_variants_request(a) ==
    Req("GET", <<a.host, "/", BACKEND_URL_SUFFIX, "/apps/", a.app_id, "/variants/">>,
        NoJson, {}, 600)

remove_variant_request(a) ==
    Req("DELETE", <<a.host, "/", BACKEND_URL_SUFFIX, "/variants/", a.variant_id>>,
        NoJson, {}, 600)

update_variant_image_request(a) ==
    Req("PUT", <<a.host, "/", BACKEND_URL_SUFFIX, "/variants/", a.variant_id, "/image/">>,
        [keys |-> {"image"}, fields |-> {}, env_vars |-> NoNested, image |-> a.image],
        {}, 600)

send_docker_tar_request(a) ==
    Req("POST",
        <<a.host, "/", BACKEND_URL_SUFFIX, "/containers/build_image/?app_id=", a.app_id,
          "&&variant_name=", a.variant_name>>,
        NoJson, {"tar_file"}, 1200)

RequestOf(o, a) ==
    CASE o = "get_app_by_name" -> get_app_by_name_request(a)
      [] o = "create_new_app" -> create_new_app_request(a)
      [] o = "add_variant_to_server" -> add_variant_to_server_request(a)
      [] o = "start_variant" -> start_variant_request(a)
      [] o = "list_variants" -> list_variants_request(a)
      [] o = "remove_variant" -> remove_variant_request(a)
      [] o = "update_variant_image" -> update_variant_image_request(a)
      [] o = "send_docker_tar" -> send_docker_tar_request(a)

----------------------------------------------------------------------------
\* Outcomes: a returned value or a raised exception with its message

NoPayload == [present |-> FALSE, body |-> TextBody]
Payload(body) == [present |-> TRUE, body |-> body]

\* A message: its fixed text, the status code formatted into it (0: none), the
\* parsed body formatted into it, the detail string formatted into it, the
\* exception formatted into it, and whether line 124 built it.
Message(text, code, payload, detail, cause, wrapped) ==
    [text |-> text, code |-> code, payload |-> payload, detail |-> detail,
     cause |-> cause, wrapped |-> wrapped]
NoMessage == Message("", 0, NoPayload, "", "", FALSE)

NoImage == [docker_id |-> "", tags |-> ""]
Value(type, str, json, list, image) ==
    [type |-> type, str |-> str, json |-> json, list |-> list, image |-> image]
NoValue == Value("none", "", TextBody, <<>>, NoImage)

Raise(kind, msg) == [kind |-> kind, msg |-> msg, value |-> NoValue]
Return(value) == [kind |-> "return", msg |-> NoMessage, value |-> value]
NoOutcome == [kind |-> "none", msg |-> NoMessage, value |-> NoValue]

\* response.json() on a body that is not JSON.
JSONDecodeError == Raise("JSONDecodeError", Message("Expecting value", 0, NoPayload, "", "", FALSE))

\* requests.get/post/put/delete raising: the exception leaves the function as it is.
Propagate(r) == Raise(r.transport, Message(r.transport, 0, NoPayload, "", "", FALSE))

\* A variant that formats the payload alone into the message.
APIRequestError_without_status(text, r) ==
    IF r.body.kind = "text"
    THEN JSONDecodeError
    ELSE Raise("APIRequestError", Message(text, 0, Payload(r.body), "", "", FALSE))

\* if response.status_code != 200: error_message = response.json(); raise APIRequestError(...)
APIRequestError(text, r) ==
    IF r.body.kind = "text"
    THEN JSONDecodeError
    ELSE Raise("APIRequestError", Message(text, r.status, Payload(r.body), "", "", FALSE))

\* A variant that answers from a module-level cache once a call has been made.
get_app_by_name_cached(r) ==
    IF calls > 0 THEN Return(Value("str", "cached", TextBody, <<>>, NoImage))
    ELSE IF r.transport # "none" THEN Propagate(r)
    ELSE IF r.status # 200 THEN APIRequestError("Request to get app failed", r)
    ELSE IF r.body.kind = "text" THEN JSONDecodeError
    ELSE IF r.body.kind = "array"
         THEN Raise("TypeError", Message("list indices must be integers", 0, NoPayload, "", "", FALSE))
    ELSE IF ~HasKey(r.body.obj, "app_id")
         THEN Raise("KeyError", Message("app_id", 0, NoPayload, "", "", FALSE))
    ELSE Return(Value("str", Get(r.body.obj, "app_id", ""), TextBody, <<>>, NoImage))

get_app_by_name_result(r) ==
    IF r.transport # "none" THEN Propagate(r)
    ELSE IF r.status # 200 THEN APIRequestError("Request to get app failed", r)
    ELSE IF r.body.kind = "text" THEN JSONDecodeError
    ELSE IF r.body.kind = "array"
         THEN Raise("TypeError", Message("list indices must be integers", 0, NoPayload, "", "", FALSE))
    ELSE IF ~HasKey(r.body.obj, "app_id")
         THEN Raise("KeyError", Message("app_id", 0, NoPayload, "", "", FALSE))
    ELSE Return(Value("str", Get(r.body.obj, "app_id", ""), TextBody, <<>>, NoImage))

create_new_app_result(r) ==
    IF r.transport # "none" THEN Propagate(r)
    ELSE IF r.status # 200 THEN APIRequestError("Request to create new app failed", r)
    ELSE IF r.body.kind = "text" THEN JSONDecodeError
    ELSE IF r.body.kind = "array"
         THEN Raise("TypeError", Message("list indices must be integers", 0, NoPayload, "", "", FALSE))
    ELSE IF ~HasKey(r.body.obj, "app_id")
         THEN Raise("KeyError", Message("app_id", 0, NoPayload, "", "", FALSE))
    ELSE Return(Value("str", Get(r.body.obj, "app_id", ""), TextBody, <<>>, NoImage))

add_variant_to_server_result(r) ==
    IF r.transport # "none" THEN Propagate(r)
    ELSE IF r.status # 200 THEN APIRequestError("Request to app_variant endpoint failed", r)
    ELSE IF r.body.kind = "text" THEN JSONDecodeError
    ELSE Return(Value("json", "", r.body, <<>>, NoImage))

\* except RequestException as e: raise APIRequestError(f"... {e}")
Wrap(cause) ==
    Raise("APIRequestError",
          Message("An error occurred while making the request", 0, NoPayload, "", cause, TRUE))

\* response.json() inside start_variant's try block on a body that is not JSON:
\* requests raises its own JSONDecodeError, a RequestException since requests 2.27.
start_variant_json_error ==
    IF jsonErrorIsRequestException THEN Wrap("JSONDecodeError") ELSE JSONDecodeError

\* response.json().get(key, default) on a body that parsed to a list.
NoGet == Raise("AttributeError", Message("'list' object has no attribute 'get'", 0, NoPayload, "", "", FALSE))

\* A variant without the try / except of lines 109 and 123.
start_variant_unhandled(r) ==
    IF r.transport # "none" THEN Propagate(r)
    ELSE IF r.status # 200
         THEN IF r.body.kind = "text" THEN JSONDecodeError
              ELSE IF r.body.kind = "array" THEN NoGet
              ELSE Raise("APIRequestError",
                         Message("Request to start variant endpoint failed", r.status, NoPayload,
                                 Get(r.body.obj, "detail", "Unknown error"), "", FALSE))
    ELSE IF r.body.kind = "text" THEN JSONDecodeError
    ELSE IF r.body.kind = "array" THEN NoGet
    ELSE Return(Value("str", Get(r.body.obj, "uri", ""), TextBody, <<>>, NoImage))

start_variant_result(r) ==
    IF r.transport # "none" THEN Wrap(r.transport)
    ELSE IF r.status # 200
         THEN IF r.body.kind = "text" THEN start_variant_json_error
              ELSE IF r.body.kind = "array" THEN NoGet
              ELSE Raise("APIRequestError",
                         Message("Request to start variant endpoint failed", r.status, NoPayload,
                                 Get(r.body.obj, "detail", "Unknown error"), "", FALSE))
    ELSE IF r.body.kind = "text" THEN start_variant_json_error
    ELSE IF r.body.kind = "array" THEN NoGet
    ELSE Return(Value("str", Get(r.body.obj, "uri", ""), TextBody, <<>>, NoImage))

\* AppVariant(**variant): the pydantic record of one JSON object.
AppVariantFields == {"variant_id", "variant_name"}
IsVariant(v) == \A k \in AppVariantFields : HasKey(v, k)
AppVariant(v) == [k \in AppVariantFields |-> Get(v, k, "")]
\* The JSON object a record stands for.
ToObject(rec) == {<<k, rec[k]>> : k \in DOMAIN rec}

\* A variant that builds the list back to front.
list_variants_reversed(arr) == [i \in 1..Len(arr) |-> AppVariant(arr[Len(arr) + 1 - i])]

\* [AppVariant(**variant) for variant in app_variants]
list_variants_comprehension(arr) == [i \in 1..Len(arr) |-> AppVariant(arr[i])]

list_variants_result(r) ==
    IF r.transport # "none" THEN Propagate(r)
    ELSE IF r.status # 200 THEN APIRequestError("Request to list_variants endpoint failed", r)
    ELSE IF r.body.kind = "text" THEN JSONDecodeError
    ELSE IF r.body.kind = "object"
         THEN IF r.body.obj = {}
              THEN Return(Value("list", "", TextBody, <<>>, NoImage))
              ELSE Raise("TypeError", Message("argument after ** must be a mapping, not str", 0, NoPayload, "", "", FALSE))
    ELSE IF \E i \in 1..Len(r.body.arr) : ~IsVariant(r.body.arr[i])
         THEN Raise("ValidationError", Message("field required", 0, NoPayload, "", "", FALSE))
    ELSE Return(Value("list", "", TextBody, list_variants_comprehension(r.body.arr), NoImage))

remove_variant_result(r) ==
    IF r.transport # "none" THEN Propagate(r)
    ELSE IF r.status # 200 THEN APIRequestError("Request to remove_variant endpoint failed", r)
    ELSE Return(NoValue)

update_variant_image_result(r) ==
    IF r.transport # "none" THEN Propagate(r)
    ELSE IF r.status # 200 THEN APIRequestError("Request to update app_variant failed", r)
    ELSE Return(NoValue)

\* Response.raise_for_status(): HTTPError for 4xx and 5xx, nothing otherwise.
RaisesForStatus(status) == 400 <= status /\ status < 600
HTTPError(r) ==
    Raise("HTTPError",
          Message(IF r.status < 500 THEN "Client Error" ELSE "Server Error", r.status,
                  NoPayload, "", "", FALSE))

\* Image.parse_obj(response.json())
IsImage(o) == HasKey(o, "docker_id") /\ HasKey(o, "tags")
Image(o) == [docker_id |-> Get(o, "docker_id", ""), tags |-> Get(o, "tags", "")]

BuildFailureText == "Serving the variant failed. ... check the Docker logs for the backend image"

send_docker_tar_result(r) ==
    IF r.transport # "none" THEN Propagate(r)
    ELSE IF r.status = 500
         THEN IF r.body.kind = "text" THEN JSONDecodeError
              ELSE Raise("Exception", Message(BuildFailureText, 0, Payload(r.body), "", "", FALSE))
    ELSE IF RaisesForStatus(r.status) THEN HTTPError(r)
    ELSE IF r.body.kind = "text" THEN JSONDecodeError
    ELSE IF r.body.kind = "array" \/ ~IsImage(r.body.obj)
         THEN Raise("ValidationError", Message("field required", 0, NoPayload, "", "", FALSE))
    ELSE Return(Value("image", "", TextBody, <<>>, Image(r.body.obj)))

ResultOf(o, r) ==
    CASE o = "get_app_by_name" -> get_app_by_name_result(r)
      [] o = "create_new_app" -> create_new_app_result(r)
      [] o = "add_variant_to_server" -> add_variant_to_server_result(r)
      [] o = "start_variant" -> start_variant_result(r)
      [] o = "list_variants" -> list_variants_result(r)
      [] o = "remove_variant" -> remove_variant_result(r)
      [] o = "update_variant_image" -> update_variant_image_result(r)
      [] o = "send_docker_tar" -> send_docker_tar_result(r)

----------------------------------------------------------------------------
\* The caller's thread

ArgsOf(o) ==
    CASE o = "start_variant" -> {[DefaultArgs EXCEPT !.env_vars = e] : e \in EnvVarsArgs}
      [] o = "send_docker_tar" -> {[DefaultArgs EXCEPT !.tar_exists = t] : t \in BOOLEAN}
      [] OTHER -> {DefaultArgs}

NoProbe(state) ==
    [state |-> state, op |-> "none", args |-> DefaultArgs, reply |-> NoReply,
     request |-> NoRequest, outcome |-> NoOutcome]

Start(which, observer) ==
    /\ BACKEND_URL_SUFFIX \in Suffixes
    /\ jsonErrorIsRequestException \in BOOLEAN
    /\ backend = which
    /\ pc = "idle"
    /\ op = "none"
    /\ args = DefaultArgs
    /\ request = NoRequest
    /\ sent = 0
    /\ reply = NoReply
    /\ tar_file = "none"
    /\ outcome = NoOutcome
    /\ calls = 0
    /\ probe = NoProbe(observer)

Init == Start("any", "off")
InitObserved == Start("observed", "armed")

\* The function is entered with its arguments bound.
Enter(o, a) ==
    /\ pc = "idle"
    /\ op' = o
    /\ args' = a
    /\ pc' = "calling"
    /\ UNCHANGED <<BACKEND_URL_SUFFIX, jsonErrorIsRequestException, backend, request, sent,
                   reply, tar_file, outcome, calls, probe>>

get_app_by_name == \E a \in ArgsOf("get_app_by_name") : Enter("get_app_by_name", a)
create_new_app == \E a \in ArgsOf("create_new_app") : Enter("create_new_app", a)
add_variant_to_server == \E a \in ArgsOf("add_variant_to_server") : Enter("add_variant_to_server", a)
start_variant == \E a \in ArgsOf("start_variant") : Enter("start_variant", a)
list_variants == \E a \in ArgsOf("list_variants") : Enter("list_variants", a)
remove_variant == \E a \in ArgsOf("remove_variant") : Enter("remove_variant", a)
update_variant_image == \E a \in ArgsOf("update_variant_image") : Enter("update_variant_image", a)

\* with tar_path.open("rb") as tar_file: the archive is opened before the request
\* is built; a path that cannot be opened raises and nothing is sent.
send_docker_tar ==
    \E a \in ArgsOf("send_docker_tar") :
        /\ pc = "idle"
        /\ op' = "send_docker_tar"
        /\ args' = a
        /\ IF a.tar_exists
           THEN /\ tar_file' = "open"
                /\ pc' = "calling"
                /\ outcome' = outcome
           ELSE /\ tar_file' = "none"
                /\ pc' = "done"
                /\ outcome' = Raise("OSError", Message("No such file or directory", 0, NoPayload, "", "", FALSE))
        /\ UNCHANGED <<BACKEND_URL_SUFFIX, jsonErrorIsRequestException, backend, request,
                       sent, reply, calls, probe>>

\* requests.get / post / put / delete is called: the request goes out.
SendRequest ==
    /\ pc = "calling"
    /\ request' = RequestOf(op, args)
    /\ sent' = sent + 1
    /\ pc' = "waiting"
    /\ UNCHANGED <<BACKEND_URL_SUFFIX, jsonErrorIsRequestException, backend, op, args, reply,
                   tar_file, outcome, calls, probe>>

\* A variant that calls requests again after a transport failure.
RetryOnFailure(o, r) ==
    IF r.transport # "none" THEN "calling"
    ELSE IF o = "send_docker_tar" THEN "in_with" ELSE "received"

\* Where the function stands once the blocking call has ended: no function
\* calls requests again.
AfterReply(o, r) == IF o = "send_docker_tar" THEN "in_with" ELSE "received"

\* What the backend and the network can answer.
BackendReplies == IF backend = "any" THEN Replies ELSE ObservedReplies

\* The blocking call ends: a response, or a transport exception.
Reply ==
    \E r \in BackendReplies :
        /\ pc = "waiting"
        /\ reply' = r
        /\ pc' = AfterReply(op, r)
        /\ UNCHANGED <<BACKEND_URL_SUFFIX, jsonErrorIsRequestException, backend, op, args,
                       request, sent, tar_file, outcome, calls, probe>>

\* A variant that closes the handle by hand after the call, not in a with block.
LeakOnException(r) == IF r.transport # "none" THEN "open" ELSE "closed"

\* The with block is left, by the assignment or by the exception: the handle is closed.
ExitWith(r) == "closed"

CloseTarFile ==
    /\ pc = "in_with"
    /\ tar_file' = ExitWith(reply)
    /\ pc' = "received"
    /\ UNCHANGED <<BACKEND_URL_SUFFIX, jsonErrorIsRequestException, backend, op, args,
                   request, sent, reply, outcome, calls, probe>>

\* The status checks and the parsing of the body.
Finish ==
    /\ pc = "received"
    /\ outcome' = ResultOf(op, reply)
    /\ pc' = "done"
    /\ UNCHANGED <<BACKEND_URL_SUFFIX, jsonErrorIsRequestException, backend, op, args,
                   request, sent, reply, tar_file, calls, probe>>

\* Control is back with the caller; the function's locals are gone.
BackToCaller ==
    /\ pc = "done"
    /\ pc' = "idle"
    /\ op' = "none"
    /\ args' = DefaultArgs
    /\ request' = NoRequest
    /\ sent' = 0
    /\ reply' = NoReply
    /\ tar_file' = "none"
    /\ outcome' = NoOutcome
    /\ calls' = IF calls < MaxCalls THEN calls + 1 ELSE calls
    /\ probe' = IF probe.state = "armed"
                THEN [state |-> "set", op |-> op, args |-> args, reply |-> reply,
                      request |-> request, outcome |-> outcome]
                ELSE probe
    /\ UNCHANGED <<BACKEND_URL_SUFFIX, jsonErrorIsRequestException, backend>>

Next ==
    \/ get_app_by_name
    \/ create_new_app
    \/ add_variant_to_server
    \/ start_variant
    \/ list_variants
    \/ remove_variant
    \/ update_variant_image
    \/ send_docker_tar
    \/ SendRequest
    \/ Reply
    \/ CloseTarFile
    \/ Finish
    \/ BackToCaller

Spec == Init /\ [][Next]_vars
SpecObserved == InitObserved /\ [][Next]_vars

----------------------------------------------------------------------------
\* Properties

Is2xx(status) == 200 <= status /\ status < 300
Answered == pc = "done" /\ reply.transport = "none"
PlainOperations ==
    {"get_app_by_name", "create_new_app", "add_variant_to_server", "list_variants",
     "remove_variant", "update_variant_image"}

C2_TransportFailureIsAPIRequestError ==
    (pc = "done" /\ op = "start_variant")
        => /\ reply.transport # "none" => outcome.kind = "APIRequestError"
           /\ outcome.kind \notin TransportErrors
           /\ (reply.transport = "none" /\ reply.status # 200 /\ reply.body.kind = "object")
                => /\ outcome.kind = "APIRequestError"
                   /\ ~outcome.msg.wrapped
                   /\ outcome.msg.code = reply.status

C2_Witness ==
    /\ pc = "done"
    /\ op = "start_variant"
    /\ reply = TransportFailure("ConnectionError")
    /\ outcome.kind = "APIRequestError"
    /\ outcome.msg.wrapped

\* C3: in send_docker_tar the handle on the archive is open in no final state,
\* whatever the reply was, it is open for as long as the request is pending, and
\* it is closed only after the request has ended.
C3_TarFileClosedOnEveryExit ==
    /\ pc = "done" => tar_file # "open"
    /\ (op = "send_docker_tar" /\ pc \in {"calling", "waiting", "in_with"}) => tar_file = "open"
    /\ tar_file = "closed" => (sent = 1 /\ reply # NoReply /\ pc \in {"received", "done"})

C3_Witness ==
    /\ pc = "done"
    /\ op = "send_docker_tar"
    /\ reply.transport = "Timeout"
    /\ tar_file = "closed"
    /\ outcome.kind = "Timeout"

\* C4 as stated: every invocation has issued exactly one request when it returns
\* or raises.
C4_ExactlyOneRequest == pc = "done" => sent = 1

\* C4 amended: no invocation issues more than one request, a failed reply is
\* reported without another request, and an invocation returns or raises with
\* exactly one request issued unless send_docker_tar could not open the archive,
\* which raises OSError with no request issued.
C4_AtMostOneRequest ==
    /\ sent <= 1
    /\ pc \in {"waiting", "in_with", "received"} => sent = 1
    /\ pc = "done"
         => \/ sent = 1
            \/ /\ sent = 0
               /\ op = "send_docker_tar"
               /\ ~args.tar_exists
               /\ outcome.kind = "OSError"

C4_Witness ==
    /\ pc = "done"
    /\ sent = 1
    /\ reply.transport = "ConnectionError"
    /\ outcome.kind # "return"

\* C5: the body start_variant sends is {"action": "START"} alone when env_vars is
\* None or empty, and {"action": "START", "env_vars": {"env_vars": M}} for a
\* non-empty mapping M.
C5_StartVariantBody ==
    (op = "start_variant" /\ sent = 1)
        => /\ request.json.fields = {<<"action", "START">>}
           /\ request.json.image = {}
           /\ IF args.env_vars.none \/ args.env_vars.map = {}
              THEN /\ request.json.keys = {"action"}
                   /\ request.json.env_vars = NoNested
              ELSE /\ request.json.keys = {"action", "env_vars"}
                   /\ request.json.env_vars.keys = {"env_vars"}
                   /\ request.json.env_vars.env_vars = args.env_vars.map

C5_Witness ==
    /\ op = "start_variant"
    /\ sent = 1
    /\ args.env_vars = EnvVars({<<"FOO", "bar">>})
    /\ request.json.keys = {"action", "env_vars"}

\* C6 as stated: send_docker_tar on status 500 raises an error whose message
\* holds "Serving the variant failed", "Docker logs" and the payload, and on
\* status 200 with an Image body returns that Image.
C6_BuildFailureMessage ==
    (Answered /\ op = "send_docker_tar")
        => /\ reply.status = 500
                => /\ outcome.kind = "Exception"
                   /\ outcome.msg.text = BuildFailureText
                   /\ outcome.msg.payload = Payload(reply.body)
           /\ (reply.status = 200 /\ reply.body.kind = "object" /\ IsImage(reply.body.obj))
                => /\ outcome.kind = "return"
                   /\ ToObject(outcome.value.image) = reply.body.obj

\* C7: list_variants on a 200 response whose body is an array of N variant objects
\* returns N records in the array's order, each equal field for field to its object.
C7_ListVariantsRoundTrip ==
    (Answered /\ op = "list_variants" /\ reply.status = 200 /\ reply.body.kind = "array"
        /\ \A i \in 1..Len(reply.body.arr) : reply.body.arr[i] \in {VariantOne, VariantTwo})
        => /\ outcome.kind = "return"
           /\ outcome.value.type = "list"
           /\ Len(outcome.value.list) = Len(reply.body.arr)
           /\ \A i \in 1..Len(reply.body.arr) :
                 ToObject(outcome.value.list[i]) = reply.body.arr[i]

C7_Witness ==
    /\ Answered
    /\ op = "list_variants"
    /\ reply = Response(200, Arr(<<VariantTwo, VariantOne>>))
    /\ outcome.kind = "return"
    /\ Len(outcome.value.list) = 2

\* C8 as stated: a non-success response whose body is not JSON still raises
\* APIRequestError carrying the status code.
C8_UnparseableBodyStillAPIRequestError ==
    (Answered /\ ~Is2xx(reply.status) /\ reply.body.kind = "text")
        => /\ outcome.kind = "APIRequestError"
           /\ outcome.msg.code = reply.status

C10_StatusClassification ==
    Answered
        => IF op = "send_docker_tar"
           THEN /\ reply.status = 500 => outcome.kind = "Exception"
                /\ (reply.status # 500 /\ ~Is2xx(reply.status)) => outcome.kind = "HTTPError"
                /\ Is2xx(reply.status)
                     => outcome.kind \notin {"Exception", "HTTPError", "APIRequestError"}
           ELSE reply.status # 200 => outcome.kind = "APIRequestError"

====
